---- MODULE Spec2Model ----
(***************************************************************************)
(* Feedback-loop document workflow of src/src/research_agent/main.py.      *)
(*                                                                         *)
(* State: the shared ContextVariables record (lines 32-52), the group      *)
(* chat's position (who speaks next, how many rounds were used) and the    *)
(* driver run_feedback_loop_pattern's position (lines 433-502).            *)
(* One action per tool function (lines 56-255), per registered hand-off    *)
(* (lines 379-430) and per driver step.                                    *)
(***************************************************************************)
EXTENDS Integers, Sequences, FiniteSets, TLC

\* ---------------------------------------------------------------- bounds
MaxTitle == 2
Titles == 1..MaxTitle

\* ------------------------------------------------------ program constants
max_iterations == 3
MaxRounds == 50

\* ------------------------------------------------------------ vocabulary
PLANNING == "planning"
DRAFTING == "drafting"
REVIEW == "review"
REVISION == "revision"
FINAL == "final"
DocumentStage == {PLANNING, DRAFTING, REVIEW, REVISION, FINAL}

Agents == {"entry_agent", "planning_agent", "drafting_agent",
           "review_agent", "revision_agent", "finalization_agent"}

\* the empty dict {} the artifacts start as
EmptyDict == <<>>

\* Python truthiness of a dict: {} is falsy, anything with a key is truthy
Truthy(d) == d # EmptyDict

DocTypes == {"essay", "report"}
Contents == {"text"}
Prompts == {"", "prompt"}

VARIABLES
    loop_started, current_iteration, iteration_needed, current_stage,
    document_prompt, document_plan, document_draft, feedback_collection,
    revised_document, final_document,
    has_error, error_message, error_stage,
    speaker, last_agent, rounds, pc, report, error_reported,
    lastTool, lastResult, reviewPasses, loopBacks, finalized

artifacts == <<document_plan, document_draft, feedback_collection,
               revised_document, final_document>>
errorState == <<has_error, error_message, error_stage>>
context == <<loop_started, current_iteration, iteration_needed, current_stage,
             document_prompt, artifacts, errorState>>
chat == <<speaker, last_agent, rounds>>
driver == <<pc, report, error_reported>>
history == <<lastTool, lastResult, reviewPasses, loopBacks, finalized>>
vars == <<context, chat, driver, history>>

\* shared_context as constructed, the chat about to give entry_agent the turn
Init ==
    /\ loop_started = FALSE
    /\ current_iteration = 0
    /\ iteration_needed = TRUE
    /\ current_stage = PLANNING
    /\ document_prompt = ""
    /\ document_plan = EmptyDict
    /\ document_draft = EmptyDict
    /\ feedback_collection = EmptyDict
    /\ revised_document = EmptyDict
    /\ final_document = EmptyDict
    /\ has_error = FALSE
    /\ error_message = ""
    /\ error_stage = ""
    /\ speaker = "entry_agent"
    /\ last_agent = "entry_agent"
    /\ rounds = 0
    /\ pc = "chat"
    /\ report = "none"
    /\ error_reported = FALSE
    /\ lastTool = "none"
    /\ lastResult = "none"
    /\ reviewPasses = 0
    /\ loopBacks = 0
    /\ finalized = FALSE

\* ------------------------------------------------- pydantic record models
\* model_dump() of each record type; the free-text fields no rule reads are
\* fixed strings.
DocumentPlan(outline, document_type) ==
    [outline |-> outline, main_arguments |-> outline,
     target_audience |-> "audience", tone |-> "formal",
     document_type |-> document_type]

DocumentDraft(title, content, document_type) ==
    [title |-> title, content |-> content, document_type |-> document_type]

FeedbackCollection(items, needed) ==
    [items |-> items, overall_assessment |-> "assessment",
     priority_issues |-> items, iteration_needed |-> needed]

RevisedDocument(title, content, changes_made, document_type) ==
    [title |-> title, content |-> content, changes_made |-> changes_made,
     document_type |-> document_type]

FinalDocument(title, content, document_type) ==
    [title |-> title, content |-> content, document_type |-> document_type]

Outlines == {<<"intro", "body">>}
FeedbackItems == {<<"item">>}
ChangesMade == {<<"change">>}

\* ------------------------------------------------------------- hand-offs
\* lines 379-383 without the loop_started conjunct
ContextConditionsStageOnly(agent) ==
    CASE agent = "entry_agent" ->
            <<[target |-> "planning_agent", holds |-> current_stage = PLANNING]>>
      [] agent = "planning_agent" ->
            <<[target |-> "drafting_agent", holds |-> current_stage = DRAFTING]>>
      [] agent = "drafting_agent" ->
            <<[target |-> "review_agent", holds |-> current_stage = REVIEW]>>
      [] agent = "review_agent" ->
            <<[target |-> "revision_agent", holds |-> current_stage = REVISION]>>
      [] agent = "revision_agent" ->
            <<[target |-> "finalization_agent", holds |-> current_stage = FINAL],
              [target |-> "review_agent", holds |-> current_stage = REVIEW]>>
      [] agent = "finalization_agent" -> <<>>

\* lines 388-393 naming the review agent as the planning agent's target
ContextConditionsSkipDrafting(agent) ==
    CASE agent = "entry_agent" ->
            <<[target |-> "planning_agent",
               holds |-> loop_started = TRUE /\ current_stage = PLANNING]>>
      [] agent = "planning_agent" ->
            <<[target |-> "review_agent", holds |-> current_stage = DRAFTING]>>
      [] agent = "drafting_agent" ->
            <<[target |-> "review_agent", holds |-> current_stage = REVIEW]>>
      [] agent = "review_agent" ->
            <<[target |-> "revision_agent", holds |-> current_stage = REVISION]>>
      [] agent = "revision_agent" ->
            <<[target |-> "finalization_agent", holds |-> current_stage = FINAL],
              [target |-> "review_agent", holds |-> current_stage = REVIEW]>>
      [] agent = "finalization_agent" -> <<>>

\* lines 421-424 sending every stage but revision back to review
ContextConditionsOverlap(agent) ==
    CASE agent = "entry_agent" ->
            <<[target |-> "planning_agent",
               holds |-> loop_started = TRUE /\ current_stage = PLANNING]>>
      [] agent = "planning_agent" ->
            <<[target |-> "drafting_agent", holds |-> current_stage = DRAFTING]>>
      [] agent = "drafting_agent" ->
            <<[target |-> "review_agent", holds |-> current_stage = REVIEW]>>
      [] agent = "review_agent" ->
            <<[target |-> "revision_agent", holds |-> current_stage = REVISION]>>
      [] agent = "revision_agent" ->
            <<[target |-> "finalization_agent", holds |-> current_stage = FINAL],
              [target |-> "review_agent", holds |-> current_stage # REVISION]>>
      [] agent = "finalization_agent" -> <<>>

\* The OnContextCondition list each agent registers, in registration order:
\* the target and whether its ContextExpression holds in the current context.
ContextConditions(agent) ==
    CASE agent = "entry_agent" ->
            <<[target |-> "planning_agent",
               holds |-> loop_started = TRUE /\ current_stage = PLANNING]>>
      [] agent = "planning_agent" ->
            <<[target |-> "drafting_agent", holds |-> current_stage = DRAFTING]>>
      [] agent = "drafting_agent" ->
            <<[target |-> "review_agent", holds |-> current_stage = REVIEW]>>
      [] agent = "review_agent" ->
            <<[target |-> "revision_agent", holds |-> current_stage = REVISION]>>
      [] agent = "revision_agent" ->
            <<[target |-> "finalization_agent", holds |-> current_stage = FINAL],
              [target |-> "review_agent", holds |-> current_stage = REVIEW]>>
      [] agent = "finalization_agent" -> <<>>

\* the positions of the agent's conditions that hold now
MatchingConditions(agent) ==
    {i \in DOMAIN ContextConditions(agent) : ContextConditions(agent)[i].holds}

\* First match wins; "none" when no condition holds (the agent then answers
\* itself).
OnContextTarget(agent) ==
    LET conds == ContextConditions(agent)
        hits == MatchingConditions(agent)
    IN IF hits = {} THEN "none"
       ELSE conds[CHOOSE i \in hits : \A j \in hits : i <= j].target

\* every turn of the group chat uses one of the max_rounds rounds
Turn ==
    /\ pc = "chat"
    /\ rounds < MaxRounds
    /\ rounds' = rounds + 1

\* a context condition of the speaking agent holds: control moves to its target
Handoff(agent) ==
    /\ Turn
    /\ speaker = agent
    /\ OnContextTarget(agent) # "none"
    /\ speaker' = OnContextTarget(agent)
    /\ UNCHANGED <<context, last_agent, driver, history>>

\* no condition holds and the agent calls its one registered function
ToolCall(agent) ==
    /\ Turn
    /\ speaker = agent
    /\ OnContextTarget(agent) = "none"
    /\ speaker' = "tool_executor"
    /\ last_agent' = agent
    /\ UNCHANGED <<context, driver, history>>

\* set_after_work given the entry agent as its target instead of the user
AfterWorkToEntry(agent) ==
    /\ Turn
    /\ speaker = agent
    /\ OnContextTarget(agent) = "none"
    /\ speaker' = "entry_agent"
    /\ last_agent' = agent
    /\ UNCHANGED <<context, driver, history>>

\* no condition holds and the agent answers in text: set_after_work(RevertToUserTarget())
AfterWork(agent) ==
    /\ Turn
    /\ speaker = agent
    /\ OnContextTarget(agent) = "none"
    /\ speaker' = "user"
    /\ last_agent' = agent
    /\ UNCHANGED <<context, driver, history>>

\* the user answers and the agent that reverted to the user continues
UserReply ==
    /\ Turn
    /\ speaker = "user"
    /\ speaker' = last_agent
    /\ UNCHANGED <<context, last_agent, driver, history>>

\* the user ends the chat
UserExit ==
    /\ pc = "chat"
    /\ speaker = "user"
    /\ pc' = "summary"
    /\ UNCHANGED <<context, chat, report, error_reported, history>>

\* a tool function runs for the agent that called it, then that agent speaks again
Executes(agent, tool, ok) ==
    /\ Turn
    /\ speaker = "tool_executor"
    /\ last_agent = agent
    /\ speaker' = agent
    /\ lastTool' = tool
    /\ lastResult' = IF ok THEN "ok" ELSE "failed"
    /\ UNCHANGED <<last_agent, driver>>

\* ------------------------------------------------------- tool functions
\* In every tool function `valid` says whether the arguments pass the call's
\* and the record type's validation; when they do not, the call raises before
\* its first write to context_variables and the caller gets the error text.

start_document_creation(valid, document_prompt_arg, document_type) ==
    /\ Executes("entry_agent", "start_document_creation", valid)
    /\ IF valid
       THEN /\ loop_started' = TRUE
            /\ current_stage' = PLANNING
            /\ document_prompt' = document_prompt_arg
            /\ current_iteration' = 1
            /\ UNCHANGED <<iteration_needed, artifacts, errorState>>
       ELSE UNCHANGED context
    /\ UNCHANGED <<reviewPasses, loopBacks, finalized>>

\* lines 94-102 recording a validation failure in the error fields
submit_document_plan_records_error(valid, outline, document_type) ==
    /\ Executes("planning_agent", "submit_document_plan", valid)
    /\ IF valid
       THEN /\ document_plan' = DocumentPlan(outline, document_type)
            /\ current_stage' = DRAFTING
            /\ UNCHANGED <<loop_started, current_iteration, iteration_needed,
                           document_prompt, document_draft, feedback_collection,
                           revised_document, final_document, errorState>>
       ELSE /\ has_error' = TRUE
            /\ error_stage' = PLANNING
            /\ error_message' = "validation error"
            /\ UNCHANGED <<loop_started, current_iteration, iteration_needed,
                           current_stage, document_prompt, artifacts>>
    /\ UNCHANGED <<reviewPasses, loopBacks, finalized>>

\* lines 101-102 also resetting the prompt
submit_document_plan_resets_prompt(valid, outline, document_type) ==
    /\ Executes("planning_agent", "submit_document_plan", valid)
    /\ IF valid
       THEN /\ document_plan' = DocumentPlan(outline, document_type)
            /\ current_stage' = DRAFTING
            /\ document_prompt' = ""
            /\ UNCHANGED <<loop_started, current_iteration, iteration_needed,
                           document_draft, feedback_collection,
                           revised_document, final_document, errorState>>
       ELSE UNCHANGED context
    /\ UNCHANGED <<reviewPasses, loopBacks, finalized>>

submit_document_plan(valid, outline, document_type) ==
    /\ Executes("planning_agent", "submit_document_plan", valid)
    /\ IF valid
       THEN /\ document_plan' = DocumentPlan(outline, document_type)
            /\ current_stage' = DRAFTING
            /\ UNCHANGED <<loop_started, current_iteration, iteration_needed,
                           document_prompt, document_draft, feedback_collection,
                           revised_document, final_document, errorState>>
       ELSE UNCHANGED context
    /\ UNCHANGED <<reviewPasses, loopBacks, finalized>>

submit_document_draft(valid, title, content, document_type) ==
    /\ Executes("drafting_agent", "submit_document_draft", valid)
    /\ IF valid
       THEN /\ document_draft' = DocumentDraft(title, content, document_type)
            /\ current_stage' = REVIEW
            /\ UNCHANGED <<loop_started, current_iteration, iteration_needed,
                           document_prompt, document_plan, feedback_collection,
                           revised_document, final_document, errorState>>
       ELSE UNCHANGED context
    /\ UNCHANGED <<reviewPasses, loopBacks, finalized>>

\* lines 168-170 also counting the review as an iteration
submit_feedback_counts(valid, items, iteration_needed_arg) ==
    /\ Executes("review_agent", "submit_feedback", valid)
    /\ IF valid
       THEN /\ feedback_collection' = FeedbackCollection(items, iteration_needed_arg)
            /\ iteration_needed' = feedback_collection'.iteration_needed
            /\ current_stage' = REVISION
            /\ current_iteration' = current_iteration + 1
            /\ reviewPasses' = reviewPasses + 1
            /\ UNCHANGED <<loop_started, document_prompt,
                           document_plan, document_draft, revised_document,
                           final_document, errorState>>
       ELSE UNCHANGED <<context, reviewPasses>>
    /\ UNCHANGED <<loopBacks, finalized>>

\* lines 162-170 with the verdict copied from the argument before validation
submit_feedback_early_write(valid, items, iteration_needed_arg) ==
    /\ Executes("review_agent", "submit_feedback", valid)
    /\ iteration_needed' = iteration_needed_arg
    /\ IF valid
       THEN /\ feedback_collection' = FeedbackCollection(items, iteration_needed_arg)
            /\ current_stage' = REVISION
            /\ reviewPasses' = reviewPasses + 1
            /\ UNCHANGED <<loop_started, current_iteration, document_prompt,
                           document_plan, document_draft, revised_document,
                           final_document, errorState>>
       ELSE UNCHANGED <<loop_started, current_iteration, current_stage,
                        document_prompt, artifacts, errorState, reviewPasses>>
    /\ UNCHANGED <<loopBacks, finalized>>

submit_feedback(valid, items, iteration_needed_arg) ==
    /\ Executes("review_agent", "submit_feedback", valid)
    /\ IF valid
       THEN /\ feedback_collection' = FeedbackCollection(items, iteration_needed_arg)
            /\ iteration_needed' = feedback_collection'.iteration_needed
            /\ current_stage' = REVISION
            /\ reviewPasses' = reviewPasses + 1
            /\ UNCHANGED <<loop_started, current_iteration, document_prompt,
                           document_plan, document_draft, revised_document,
                           final_document, errorState>>
       ELSE UNCHANGED <<context, reviewPasses>>
    /\ UNCHANGED <<loopBacks, finalized>>

\* the test of line 204, with the off-by-one a mutant would make
AnotherIterationInclusive ==
    iteration_needed /\ current_iteration <= max_iterations

\* the test of line 204 without its bound
AnotherIterationUnbounded == iteration_needed

\* the test of line 204 without the reviewer's verdict
AnotherIterationAlways == current_iteration < max_iterations

\* line 204: another Review pass is wanted and allowed
AnotherIteration ==
    iteration_needed /\ current_iteration < max_iterations

\* lines 205-213 without the increment
LoopBackNoCount(revised) ==
    /\ current_stage' = REVIEW
    /\ document_draft' = [title |-> revised.title, content |-> revised.content,
                          document_type |-> revised.document_type]
    /\ loopBacks' = loopBacks + 1
    /\ UNCHANGED current_iteration

\* lines 205-213 naming the wrong stage
LoopBackToDrafting(revised) ==
    /\ current_iteration' = current_iteration + 1
    /\ current_stage' = DRAFTING
    /\ document_draft' = [title |-> revised.title, content |-> revised.content,
                          document_type |-> revised.document_type]
    /\ loopBacks' = loopBacks + 1

\* lines 205-213 without lines 209-213
LoopBackKeepsDraft(revised) ==
    /\ current_iteration' = current_iteration + 1
    /\ current_stage' = REVIEW
    /\ loopBacks' = loopBacks + 1
    /\ UNCHANGED document_draft

\* lines 205-213 with the draft keeping its old title
LoopBackKeepsTitle(revised) ==
    /\ current_iteration' = current_iteration + 1
    /\ current_stage' = REVIEW
    /\ document_draft' = [title |-> document_draft.title,
                          content |-> revised.content,
                          document_type |-> revised.document_type]
    /\ loopBacks' = loopBacks + 1

\* lines 205-213: next iteration, back to Review with the revision as the draft
LoopBack(revised) ==
    /\ current_iteration' = current_iteration + 1
    /\ current_stage' = REVIEW
    /\ document_draft' = [title |-> revised.title, content |-> revised.content,
                          document_type |-> revised.document_type]
    /\ loopBacks' = loopBacks + 1

\* line 221 counting the last pass as well
MoveToFinalCounting ==
    /\ current_stage' = FINAL
    /\ current_iteration' = current_iteration + 1
    /\ UNCHANGED <<document_draft, loopBacks>>

\* line 221: revisions are over
MoveToFinal ==
    /\ current_stage' = FINAL
    /\ UNCHANGED <<current_iteration, document_draft, loopBacks>>

submit_revised_document(valid, title, content, changes_made, document_type) ==
    /\ Executes("revision_agent", "submit_revised_document", valid)
    /\ IF valid
       THEN /\ revised_document' =
                  RevisedDocument(title, content, changes_made, document_type)
            /\ IF AnotherIteration
               THEN LoopBack(revised_document')
               ELSE MoveToFinal
            /\ UNCHANGED <<loop_started, iteration_needed, document_prompt,
                           document_plan, feedback_collection, final_document,
                           errorState>>
       ELSE UNCHANGED <<context, loopBacks>>
    /\ UNCHANGED <<reviewPasses, finalized>>

\* lines 249-250 without line 250
finalize_document_keeps_verdict(valid, title, content, document_type) ==
    /\ Executes("finalization_agent", "finalize_document", valid)
    /\ IF valid
       THEN /\ final_document' = FinalDocument(title, content, document_type)
            /\ UNCHANGED <<loop_started, current_iteration, current_stage,
                           iteration_needed, document_prompt, document_plan,
                           document_draft, feedback_collection,
                           revised_document, errorState>>
       ELSE UNCHANGED context
    /\ finalized' = (finalized \/ valid)
    /\ UNCHANGED <<reviewPasses, loopBacks>>

finalize_document(valid, title, content, document_type) ==
    /\ Executes("finalization_agent", "finalize_document", valid)
    /\ IF valid
       THEN /\ final_document' = FinalDocument(title, content, document_type)
            /\ iteration_needed' = FALSE
            /\ UNCHANGED <<loop_started, current_iteration, current_stage,
                           document_prompt, document_plan, document_draft,
                           feedback_collection, revised_document, errorState>>
       ELSE UNCHANGED context
    /\ finalized' = (finalized \/ valid)
    /\ UNCHANGED <<reviewPasses, loopBacks>>

\* ----------------------------------------------------------------- driver
\* lines 458-462 with a ceiling test that the round counter never meets
MaxRoundsReachedLate ==
    /\ pc = "chat"
    /\ rounds > MaxRounds
    /\ pc' = "summary"
    /\ UNCHANGED <<context, chat, report, error_reported, history>>

\* initiate_group_chat returns once max_rounds rounds are used
MaxRoundsReached ==
    /\ pc = "chat"
    /\ rounds = MaxRounds
    /\ pc' = "summary"
    /\ UNCHANGED <<context, chat, report, error_reported, history>>

\* line 464 reading the wrong artifact
CompletedByRevision == Truthy(revised_document)

\* line 464 reading the stage instead of the final document
CompletedByStage == current_stage = FINAL

\* line 464: the run counts as completed when a final document is stored
Completed == Truthy(final_document)

\* the report run_feedback_loop_pattern prints from final_context
Summary ==
    /\ pc = "summary"
    /\ pc' = "done"
    /\ IF Completed
       THEN /\ report' = "completed"
            /\ error_reported' = FALSE
       ELSE /\ report' = "incomplete"
            /\ error_reported' = has_error
    /\ UNCHANGED <<context, chat, history>>

Next ==
    \/ \E agent \in Agents : Handoff(agent)
    \/ \E agent \in Agents : ToolCall(agent)
    \/ \E agent \in Agents : AfterWork(agent)
    \/ UserReply
    \/ UserExit
    \/ \E valid \in BOOLEAN, p \in Prompts, d \in DocTypes :
          start_document_creation(valid, p, d)
    \/ \E valid \in BOOLEAN, o \in Outlines, d \in DocTypes :
          submit_document_plan(valid, o, d)
    \/ \E valid \in BOOLEAN, t \in Titles, c \in Contents, d \in DocTypes :
          submit_document_draft(valid, t, c, d)
    \/ \E valid \in BOOLEAN, i \in FeedbackItems, n \in BOOLEAN :
          submit_feedback(valid, i, n)
    \/ \E valid \in BOOLEAN, t \in Titles, c \in Contents, m \in ChangesMade,
          d \in DocTypes :
          submit_revised_document(valid, t, c, m, d)
    \/ \E valid \in BOOLEAN, t \in Titles, c \in Contents, d \in DocTypes :
          finalize_document(valid, t, c, d)
    \/ MaxRoundsReached
    \/ Summary

Spec == Init /\ [][Next]_vars

\* the chat loop and the driver run on: every agent, tool and user turn returns
FairSpec == Spec /\ WF_vars(Next)

\* run_feedback_loop_pattern is called once more in the same process: lines
\* 444-456 build a new pattern around the module-level shared_context, which
\* nothing has re-created since the first run wrote to it; the chat of the
\* second run is about to start with entry_agent.
SecondCall ==
    /\ pc = "done"
    /\ pc' = "second_call"
    /\ speaker' = "entry_agent"
    /\ last_agent' = "entry_agent"
    /\ rounds' = 0
    /\ report' = "none"
    /\ error_reported' = FALSE
    /\ lastTool' = "none"
    /\ lastResult' = "none"
    /\ reviewPasses' = 0
    /\ loopBacks' = 0
    /\ finalized' = FALSE
    /\ UNCHANGED context

NextRerun == Next \/ SecondCall

\* one run of the driver followed by the start of a second one
SpecRerun == Init /\ [][NextRerun]_vars

\* ------------------------------------------------------------ properties
\* a step in which the named tool function ran to its end
RanOk(tool) ==
    /\ speaker = "tool_executor"
    /\ speaker' # "tool_executor"
    /\ lastTool' = tool
    /\ lastResult' = "ok"

\* a step in which a tool function raised on its arguments
RanFailed ==
    /\ speaker = "tool_executor"
    /\ speaker' # "tool_executor"
    /\ lastResult' = "failed"

\* a step in which any tool function was executed
RanAny ==
    /\ speaker = "tool_executor"
    /\ speaker' # "tool_executor"

\* C1: in every reachable state current_iteration is at most max_iterations,
\* whatever verdicts the reviewer submits.
Thm_C1_IterationBounded == current_iteration <= max_iterations

\* C1 witness: the bound is met with the reviewer still asking for more
Wit_C1_BoundMet ==
    /\ current_iteration = max_iterations
    /\ lastTool = "submit_revised_document"
    /\ lastResult = "ok"
    /\ iteration_needed = TRUE
    /\ current_stage = FINAL

\* C2: the workflow returns from Revision to Review at most
\* max_iterations - 1 times, and a valid submit_revised_document after the
\* last allowed return sets the stage to final although iteration_needed is
\* still true, so the Review/Revision loop cannot run forever.
Thm_C2_LoopForcedToFinal ==
    /\ [](loopBacks <= max_iterations - 1)
    /\ [][(/\ RanOk("submit_revised_document")
            /\ loopBacks = max_iterations - 1
            /\ iteration_needed = TRUE)
          => (/\ current_stage' = FINAL
              /\ iteration_needed' = TRUE
              /\ loopBacks' = loopBacks)]_vars

\* C2 witness: forced to final after the last allowed return, verdict still true
Wit_C2_Forced ==
    /\ loopBacks = max_iterations - 1
    /\ reviewPasses = max_iterations
    /\ current_stage = FINAL
    /\ iteration_needed = TRUE

\* C3: after start, plan, draft, one feedback with iteration_needed = false
\* and one revision, the stage is final, current_iteration is 1 and Review
\* was never returned to.
Thm_C3_SinglePass ==
    (/\ lastTool = "submit_revised_document"
     /\ lastResult = "ok"
     /\ reviewPasses = 1
     /\ iteration_needed = FALSE)
    => (/\ current_stage = FINAL
        /\ current_iteration = 1
        /\ loopBacks = 0)

\* C3 witness: the single-pass run has just made its revision
Wit_C3_SinglePassDone ==
    /\ lastTool = "submit_revised_document"
    /\ lastResult = "ok"
    /\ reviewPasses = 1
    /\ iteration_needed = FALSE
    /\ Truthy(document_plan)
    /\ Truthy(document_draft)
    /\ current_stage = FINAL

\* C4: whenever the stage is final, current_iteration equals the number of
\* Review passes (successful submit_feedback calls) of the run; the verdicts
\* true then false end with current_iteration = 2.
Thm_C4_IterationCountsReviews ==
    current_stage = FINAL => current_iteration = reviewPasses

\* C4 witness: final after the verdicts true, false
Wit_C4_TwoPasses ==
    /\ current_stage = FINAL
    /\ reviewPasses = 2
    /\ loopBacks = 1
    /\ current_iteration = 2

\* the stage changes the workflow allows
StageMoves ==
    {<<PLANNING, DRAFTING>>, <<DRAFTING, REVIEW>>, <<REVIEW, REVISION>>,
     <<REVISION, REVIEW>>, <<REVISION, FINAL>>}

\* C5: every change of current_stage is one of planning->drafting,
\* drafting->review, review->revision, revision->review, revision->final.
Thm_C5_StageMoves ==
    [][current_stage' # current_stage
       => <<current_stage, current_stage'>> \in StageMoves]_vars

\* C5 witness: a run that used the loop edge and then reached final
Wit_C5_AllEdgesUsed ==
    /\ current_stage = FINAL
    /\ loopBacks >= 1
    /\ Truthy(final_document)

\* C6: after a tool function failed validation, has_error is true and
\* error_stage and error_message are set.
Claim_C6_ErrorRecorded ==
    lastResult = "failed"
    => (has_error = TRUE /\ error_stage # "" /\ error_message # "")

\* C7: a tool call that fails validation leaves current_stage,
\* current_iteration, iteration_needed and every stored artifact as they were.
Thm_C7_FailureChangesNothing ==
    [][RanFailed
       => UNCHANGED <<current_stage, current_iteration, iteration_needed,
                      artifacts>>]_vars

\* C7 witness: a feedback call has just failed in the Review stage after a draft
Wit_C7_FeedbackFailed ==
    /\ lastTool = "submit_feedback"
    /\ lastResult = "failed"
    /\ current_stage = REVIEW
    /\ Truthy(document_draft)

\* C8: once a tool function has failed validation no further tool function
\* is executed, and the driver's report names the error.
Claim_C8_ErrorTerminal ==
    /\ [][lastResult = "failed" => ~RanAny]_vars
    /\ [](pc = "done" /\ lastResult = "failed" => error_reported = TRUE)

\* C9: when the round ceiling is reached and the stage is not final, the
\* driver finishes with the "did not complete" report.
Thm_C9_RoundLimitIncomplete ==
    (pc = "done" /\ rounds = MaxRounds /\ current_stage # FINAL)
    => report = "incomplete"

\* C9 witness: the ceiling was hit in the middle of the loop and reported
Wit_C9_CeilingInLoop ==
    /\ pc = "done"
    /\ rounds = MaxRounds
    /\ current_stage = REVIEW
    /\ loopBacks >= 1
    /\ report = "incomplete"

\* C10 as claimed: every step that raises current_iteration is a
\* submit_revised_document call that also sets the stage to review.
Claim_C10_OnlyRevisionRaises ==
    [][current_iteration' > current_iteration
       => (RanOk("submit_revised_document") /\ current_stage' = REVIEW)]_vars

\* C10 amended: every step that raises current_iteration is either the
\* start_document_creation call, which sets it from 0 to 1, or a
\* submit_revised_document call that raises it by one and sets the stage to
\* review.
Thm_C10_StartOrRevisionRaises ==
    [][current_iteration' > current_iteration
       => \/ (/\ RanOk("start_document_creation")
              /\ current_iteration = 0
              /\ current_iteration' = 1)
          \/ (/\ RanOk("submit_revised_document")
              /\ current_iteration' = current_iteration + 1
              /\ current_stage' = REVIEW)]_vars

\* C10 witness: both raising steps have happened
Wit_C10_RaisedTwice ==
    /\ current_iteration = 2
    /\ loopBacks = 1
    /\ current_stage = REVIEW
    /\ lastTool = "submit_revised_document"

\* C11: a valid submit_revised_document stores the revision; if
\* iteration_needed is true and current_iteration < max_iterations it adds one
\* to current_iteration, makes the revision's title, content and document
\* type the working draft and sets the stage to review; otherwise it sets the
\* stage to final and leaves current_iteration and the working draft alone.
Thm_C11_DecisionRule ==
    [][RanOk("submit_revised_document")
       => /\ Truthy(revised_document')
          /\ DOMAIN revised_document' =
                {"title", "content", "changes_made", "document_type"}
          /\ IF iteration_needed /\ current_iteration < max_iterations
             THEN /\ current_iteration' = current_iteration + 1
                  /\ document_draft' =
                        [title |-> revised_document'.title,
                         content |-> revised_document'.content,
                         document_type |-> revised_document'.document_type]
                  /\ current_stage' = REVIEW
             ELSE /\ current_stage' = FINAL
                  /\ UNCHANGED <<current_iteration, document_draft>>]_vars

\* C11 witness: one loop-back replaced the draft, then a revision with another
\* title went to final and left the draft as it was
Wit_C11_BothBranches ==
    /\ current_stage = FINAL
    /\ loopBacks = 1
    /\ lastTool = "submit_revised_document"
    /\ lastResult = "ok"
    /\ document_draft.title # revised_document.title

\* C12: once start_document_creation has written document_prompt, no later
\* step of the run changes it.
Thm_C12_PromptImmutable ==
    [][loop_started => document_prompt' = document_prompt]_vars

\* C12 witness: a run that went through every stage with its prompt intact
Wit_C12_PromptKept ==
    /\ loop_started
    /\ document_prompt = "prompt"
    /\ finalized
    /\ loopBacks >= 1

\* C13: finalize_document runs in stage final, stores the final document,
\* sets iteration_needed to false and leaves the stage at final; once it has
\* run, the only tool function ever executed again is finalize_document
\* itself and the stage stays final.
Thm_C13_FinalizeTerminal ==
    /\ [][RanOk("finalize_document")
          => /\ current_stage = FINAL
             /\ current_stage' = FINAL
             /\ Truthy(final_document')
             /\ iteration_needed' = FALSE]_vars
    /\ [][finalized
          => /\ current_stage' = FINAL
             /\ (RanAny => lastTool' = "finalize_document")
             /\ speaker' \in {"finalization_agent", "user", "tool_executor"}]_vars

\* C13 witness: finalized after a forced end of the loop, control back with
\* the user
Wit_C13_Finalized ==
    /\ finalized
    /\ lastTool = "finalize_document"
    /\ lastResult = "ok"
    /\ loopBacks = max_iterations - 1
    /\ feedback_collection.iteration_needed = TRUE
    /\ iteration_needed = FALSE
    /\ speaker = "user"

\* C14: a start_document_creation call with an empty prompt is rejected: the
\* loop is never started, current_iteration never leaves 0 and the planning
\* agent never gets control while document_prompt is empty.
Claim_C14_EmptyPromptRejected ==
    (loop_started \/ current_iteration # 0 \/ speaker = "planning_agent")
    => document_prompt # ""

\* C15: the driver reports "completed" exactly when the stage is final and
\* finalize_document has run; a run at stage final without a stored final
\* document is reported as not completed.
Thm_C15_CompletedIffFinalized ==
    pc = "done"
    => (report = "completed" <=> (current_stage = FINAL /\ finalized))

\* C15 witness: the run reached final, finalize_document only failed, and the
\* report is the incomplete one
Wit_C15_FinalNotFinalized ==
    /\ pc = "done"
    /\ current_stage = FINAL
    /\ lastTool = "finalize_document"
    /\ lastResult = "failed"
    /\ ~finalized
    /\ report = "incomplete"

\* what is left of the run: two per unused round while the chat goes on, one
\* for the report still to print, nothing once the driver is done
StepsLeft ==
    CASE pc = "chat" -> 2 * (MaxRounds - rounds) + 2
      [] pc = "summary" -> 1
      [] pc = "done" -> 0

\* C16: every run of the driver terminates: no more than MaxRounds turns are
\* taken, every step of the chat and of the driver brings the end of the run
\* nearer, the run is never stuck before the driver is done, and when it is
\* done it has printed either the completion summary or the "did not
\* complete" report.
Thm_C16_DriverTerminates ==
    /\ [](rounds <= MaxRounds /\ StepsLeft >= 0)
    /\ [][StepsLeft' < StepsLeft]_vars
    /\ [](pc # "done" => ENABLED Next)
    /\ [](pc = "done" => report \in {"completed", "incomplete"})

\* C16 witness: a run that used all rounds, finalized on the way, and ended
\* with the completion summary
Wit_C16_AllRoundsUsed ==
    /\ pc = "done"
    /\ rounds = MaxRounds
    /\ finalized
    /\ report = "completed"

\* C17: in every reachable state at most one hand-off condition of each agent
\* holds (for the revision agent, stage final -> finalization and stage
\* review -> review never hold together), so the hand-off target is unique.
Thm_C17_RouterDeterministic ==
    \A agent \in Agents : Cardinality(MatchingConditions(agent)) <= 1

\* C17 witness: the revision agent has the turn and only its second condition
\* (back to review) holds
Wit_C17_SecondConditionOnly ==
    /\ speaker = "revision_agent"
    /\ lastTool = "submit_revised_document"
    /\ MatchingConditions("revision_agent") = {2}

\* C18: when no hand-off condition of the speaking agent holds, control goes
\* to no other agent: the agent either calls its own tool or control reverts
\* to the user, who will hand it back to that agent, and the step leaves the
\* whole shared context unchanged.
Thm_C18_FallbackToUser ==
    [][(speaker \in Agents /\ OnContextTarget(speaker) = "none")
       => /\ speaker' \in {speaker, "tool_executor", "user"}
          /\ speaker' = "user" => last_agent' = speaker
          /\ UNCHANGED context]_vars

\* C18 witness: the review agent answered in text in its second pass and
\* control is with the user
Wit_C18_RevertedToUser ==
    /\ speaker = "user"
    /\ last_agent = "review_agent"
    /\ current_stage = REVIEW
    /\ loopBacks = 1

\* C19: the planning agent is never active before start_document_creation
\* has run: while loop_started is false the entry agent's condition does not
\* hold and only the entry agent, its tool and the user take turns, and
\* submit_document_plan never runs while current_iteration is 0.
Thm_C19_NoPlanningBeforeStart ==
    /\ ~loop_started
         => /\ OnContextTarget("entry_agent") = "none"
            /\ speaker \in {"entry_agent", "tool_executor", "user"}
            /\ last_agent = "entry_agent"
    /\ current_iteration = 0
         => /\ lastTool # "submit_document_plan"
            /\ speaker # "planning_agent"
            /\ last_agent # "planning_agent"
    /\ speaker = "planning_agent" => loop_started

\* C19 witness: start has just run and the planning agent has the turn
Wit_C19_PlanningAfterStart ==
    /\ speaker = "planning_agent"
    /\ lastTool = "start_document_creation"
    /\ lastResult = "ok"
    /\ loop_started
    /\ current_iteration = 1
    /\ current_stage = PLANNING

\* what submit_document_plan, submit_document_draft and submit_feedback all
\* leave alone
FrameOfEarlyStages ==
    <<loop_started, current_iteration, document_prompt, revised_document,
      final_document, errorState>>

\* C20: on valid input submit_document_plan stores the plan and sets the
\* stage to drafting, submit_document_draft stores the draft and sets the
\* stage to review, submit_feedback stores the feedback, copies its
\* iteration_needed into the context and sets the stage to revision; none of
\* them changes current_iteration, the error fields or another stage's
\* artifact.
Thm_C20_EarlyStagesFrame ==
    [][/\ RanOk("submit_document_plan")
          => /\ Truthy(document_plan')
             /\ current_stage' = DRAFTING
             /\ UNCHANGED <<FrameOfEarlyStages, iteration_needed,
                            document_draft, feedback_collection>>
       /\ RanOk("submit_document_draft")
          => /\ Truthy(document_draft')
             /\ current_stage' = REVIEW
             /\ UNCHANGED <<FrameOfEarlyStages, iteration_needed,
                            document_plan, feedback_collection>>
       /\ RanOk("submit_feedback")
          => /\ Truthy(feedback_collection')
             /\ iteration_needed' = feedback_collection'.iteration_needed
             /\ current_stage' = REVISION
             /\ UNCHANGED <<FrameOfEarlyStages, document_plan,
                            document_draft>>]_vars

\* C20 witness: the second feedback of a run turned the verdict to false with
\* every earlier artifact and a revision in place
Wit_C20_SecondFeedback ==
    /\ lastTool = "submit_feedback"
    /\ lastResult = "ok"
    /\ reviewPasses = 2
    /\ current_iteration = 2
    /\ iteration_needed = FALSE
    /\ current_stage = REVISION
    /\ Truthy(revised_document)

\* C21: each artifact is stored once per visit of its stage; in particular
\* finalize_document stores the final document once per run, so it never
\* runs successfully when it already has.
Claim_C21_FinalizedOnce ==
    [][RanOk("finalize_document") => ~finalized]_vars

\* C22: a second call of run_feedback_loop_pattern starts from the initial
\* shared context: stage planning, current_iteration 0, loop not started, no
\* prompt, no artifacts, no error.
Claim_C22_FreshStateEachRun ==
    pc = "second_call"
    => /\ loop_started = FALSE
       /\ current_iteration = 0
       /\ iteration_needed = TRUE
       /\ current_stage = PLANNING
       /\ document_prompt = ""
       /\ document_plan = EmptyDict
       /\ document_draft = EmptyDict
       /\ feedback_collection = EmptyDict
       /\ revised_document = EmptyDict
       /\ final_document = EmptyDict
       /\ has_error = FALSE
       /\ error_message = ""
       /\ error_stage = ""

\* C23: artifacts exist in stage order: a stored final document implies stage
\* final and a stored revision, a revision implies feedback, feedback implies
\* a draft, a draft implies a plan, a plan implies that
\* start_document_creation has run; so a run reported as completed has every
\* artifact its checklist marks as completed.
Thm_C23_ArtifactsInStageOrder ==
    /\ Truthy(final_document)
         => (current_stage = FINAL /\ Truthy(revised_document))
    /\ Truthy(revised_document) => Truthy(feedback_collection)
    /\ Truthy(feedback_collection) => Truthy(document_draft)
    /\ Truthy(document_draft) => Truthy(document_plan)
    /\ Truthy(document_plan) => (loop_started /\ current_iteration >= 1)
    /\ report = "completed"
         => \A i \in 1..Len(artifacts) : Truthy(artifacts[i])

\* C23 witness: a run without loop-back reported as completed, every artifact
\* stored
Wit_C23_CompletedWithAll ==
    /\ pc = "done"
    /\ report = "completed"
    /\ loopBacks = 0
    /\ reviewPasses = 1
    /\ \A i \in 1..Len(artifacts) : Truthy(artifacts[i])

\* C24: in stage review with current_iteration >= 2 the working draft is the
\* title, content and document type of the stored revision.
Thm_C24_ReviewSeesLatestRevision ==
    (current_stage = REVIEW /\ current_iteration >= 2)
    => document_draft = [title |-> revised_document.title,
                         content |-> revised_document.content,
                         document_type |-> revised_document.document_type]

\* C24 witness: the third review pass is about to review a revision whose
\* title and type differ from an earlier draft's
Wit_C24_ThirdPass ==
    /\ current_stage = REVIEW
    /\ current_iteration = 3
    /\ speaker = "review_agent"
    /\ document_draft.title = 2
    /\ document_draft.document_type = "report"
    /\ revised_document.title = 2
    /\ revised_document.document_type = "report"

\* C25: has_error, error_message and error_stage keep their initial values
\* False, '' and '' in every reachable state, and the driver never prints the
\* error line.
Thm_C25_ErrorFieldsNeverWritten ==
    /\ has_error = FALSE
    /\ error_message = ""
    /\ error_stage = ""
    /\ error_reported = FALSE

\* C25 witness: a run in which the plan failed validation ended with the
\* incomplete report and no error line
Wit_C25_FailureNotReported ==
    /\ pc = "done"
    /\ lastTool = "submit_document_plan"
    /\ lastResult = "failed"
    /\ report = "incomplete"
    /\ has_error = FALSE
    /\ error_reported = FALSE

====
